---- MODULE Spec2Model ----
(***************************************************************************)
(* A model of robottelo/entities.py: the helper methods that wrap one API  *)
(* action each, the uniqueness searches, ActivationKey.read_raw,           *)
(* ForemanTask.poll, Host._factory_data and LifecycleEnvironment.build.    *)
(*                                                                         *)
(* One client executes one method at a time.  A method call issues its     *)
(* request, the server answers with a status and a body of its choosing,   *)
(* and the method continues as its code says.  `log` records, in order,    *)
(* what the running method did (requests, responses, body reads, polls,    *)
(* sleeps, dependent creates); `returned` is how the method ended.         *)
(***************************************************************************)
EXTENDS Integers, Sequences, FiniteSets, TLC

VARIABLES
    op,           \* the method being executed, "none" when idle
    pc,           \* position in the method
    synchronous,  \* the `synchronous` argument of a task-triggering helper
    response,     \* the last response received
    task_id,      \* the helper's local `task_id`
    returned,     \* how the method ended: a value or an exception
    log,          \* what the method did so far, in order
    task,         \* the state of the poll loop of orm._poll_task
    host,         \* the fields of the Host that _factory_data reads and sets
    lce,          \* the fields of the LifecycleEnvironment that build reads and sets
    data          \* the dict a method works on: values, attrs or the create payload

vars == <<op, pc, synchronous, response, task_id, returned, log, task, host, lce,
          data>>

----------------------------------------------------------------------------
(* Bounds of the model *)

MaxId == 2          \* ids the server hands out are 1..MaxId
MaxResults == 2     \* longest 'results' list of a response body

(* Program constants *)

ACCEPTED == 202             \* httplib.ACCEPTED
NOT_FOUND == 404            \* the literal of read_raw
RETRY_SLEEP == 5            \* sleep(5) of read_raw
DEFAULT_POLL_RATE == 5      \* poll(poll_rate=5, ...)
DEFAULT_TIMEOUT == 120      \* poll(..., timeout=120, ...)

\* Python's None where an id is expected: the integer that is no id.
None == 1 - 1
Ids == 1 .. MaxId

\* Statuses the server answers with: success, accepted, client and server errors.
Statuses == {200, 201, 202, 204, 404, 500}

\* Values a caller passes for `synchronous` (Python objects, by their repr).
SyncValues == {"True", "False", "None", "1"}

\* poll_rate and timeout of a direct call of ForemanTask.poll.
PollRates == {DEFAULT_POLL_RATE, 7}
Timeouts == {0, 12, DEFAULT_TIMEOUT}
TaskStates == {"running", "stopped"}

\* CPython keeps one object per integer in -5..256; other interpreters differ.
SmallInts == (0 - 5) .. 256

----------------------------------------------------------------------------
(* Methods *)

TaskHelpers == {
    "ContentView.publish", "ContentViewVersion.promote", "Repository.sync",
    "Organization.upload_manifest", "Organization.delete_manifest",
    "Organization.refresh_manifest", "Product.enable_rhrepo",
    "Product.disable_rhrepo"}

\* Helpers returning response.json() or response.json()['results'].
JsonHelpers == {"ActivationKey.add_subsciptions", "Organization.sync_plan"}
ResultsHelpers == {
    "Organization.subscriptions", "Organization.list_rhproducts",
    "Product.list_repositorysets", "Permission.search"}

UniqueSearches == {
    "Organization.fetch_rhproduct_id", "Product.fetch_rhproduct_id",
    "Product.fetch_reposet_id", "Repository.fetch_repoid"}

ActionHelpers == TaskHelpers \cup JsonHelpers \cup ResultsHelpers

\* The request each method issues: the HTTP verb and the `which` of self.path.
RequestOf(m) ==
    CASE m = "ContentView.publish" -> "POST publish"
      [] m = "ContentViewVersion.promote" -> "POST promote"
      [] m = "Repository.sync" -> "POST sync"
      [] m = "Organization.upload_manifest" -> "POST subscriptions/upload"
      [] m = "Organization.delete_manifest" -> "POST subscriptions/delete_manifest"
      [] m = "Organization.refresh_manifest" -> "PUT subscriptions/refresh_manifest"
      [] m = "Product.enable_rhrepo" -> "PUT repository_sets/id/enable"
      [] m = "Product.disable_rhrepo" -> "PUT repository_sets/id/disable"
      [] m = "ActivationKey.add_subsciptions" -> "POST subscriptions"
      [] m = "Organization.sync_plan" -> "POST sync_plans"
      [] m = "Organization.subscriptions" -> "GET subscriptions"
      [] m = "Organization.list_rhproducts" -> "GET products"
      [] m = "Product.list_repositorysets" -> "GET repository_sets"
      [] m = "Permission.search" -> "GET base"
      [] m = "Organization.fetch_rhproduct_id" -> "GET products"
      [] m = "Product.fetch_rhproduct_id" -> "GET base"
      [] m = "Product.fetch_reposet_id" -> "GET repository_sets"
      [] m = "Repository.fetch_repoid" -> "GET None"
      [] m = "ActivationKey.read_raw" -> "GET self"
      [] m = "Host._factory_data" -> "GET SmartProxy"
      [] m = "LifecycleEnvironment.build" -> "GET Library"
      [] OTHER -> "GET task"

\* Mutant: Permission.search and Product.disable_rhrepo forget the call.
RaisesForStatusFewer(m) ==
    m \in (ActionHelpers \ {"Permission.search", "Product.disable_rhrepo"})
          \cup UniqueSearches \cup {"Host._factory_data"}

\* The methods that call response.raise_for_status() on the response of
\* their request.  LifecycleEnvironment.build chains .json() onto client.get.
RaisesForStatus(m) ==
    m \in ActionHelpers \cup UniqueSearches \cup {"Host._factory_data"}

----------------------------------------------------------------------------
(* Responses *)

\* A response body: not JSON at all, a hash with 'id', a hash with 'results',
\* or a hash with neither.
Bodies ==
    {[kind |-> "invalid", id |-> None, results |-> <<>>],
     [kind |-> "other", id |-> None, results |-> <<>>]}
    \cup {[kind |-> "task", id |-> i, results |-> <<>>] : i \in Ids}
    \cup {[kind |-> "list", id |-> None, results |-> r] :
            r \in UNION {[1 .. n -> Ids] : n \in 0 .. MaxResults}}

NoResponse == [status_code |-> None, body |-> [kind |-> "invalid", id |-> None, results |-> <<>>]]

\* requests.Response.raise_for_status: raises HTTPError for 4xx and 5xx.
raise_for_status(status_code) == status_code >= 400 /\ status_code < 600

\* Python's `a is b` on two integers: equal values are one object for the
\* small integers; for larger ones it depends on the interpreter
\* (sameObject is the interpreter's choice).
Is(a, b, sameObject) == a = b /\ (a \in SmallInts \/ sameObject)

----------------------------------------------------------------------------
(* How a method ends *)

NotReturned == [kind |-> "running", id |-> None, list |-> <<>>]
Return(kind, id, list) == [kind |-> kind, id |-> id, list |-> list]
Raise(exception) == [kind |-> exception, id |-> None, list |-> <<>>]
ReturnNone == Return("None", None, <<>>)

Exceptions == {"HTTPError", "TaskTimeout", "APIResponseError", "ValueError",
               "KeyError", "IndexError", "IOError"}

\* An entry of the log: what happened, to what, with which number (a status,
\* an id, seconds) and which ids as arguments.
Event(ev, what, n, args) == [ev |-> ev, what |-> what, n |-> n, args |-> args]

NoTask == [id |-> None, poll_rate |-> 0, timeout |-> 0, elapsed |-> 0, checks |-> 0]
NoHost == [operatingsystem |-> None, architecture |-> None, ptable |-> None,
           medium |-> None, puppet_proxy |-> None]
NoLce == [organization |-> None, prior |-> None]
\* The empty dict.
NoData == <<>>

Init ==
    /\ op = "none"
    /\ pc = "idle"
    /\ synchronous = "True"
    /\ response = NoResponse
    /\ task_id = None
    /\ returned = NotReturned
    /\ log = <<>>
    /\ task = NoTask
    /\ host = NoHost
    /\ lce = NoLce
    /\ data = NoData

\* A method is entered: its locals are fresh and its request is issued.
Call(m, s) ==
    /\ pc = "idle"
    /\ op' = m
    /\ synchronous' = s
    /\ response' = NoResponse
    /\ task_id' = None
    /\ returned' = NotReturned
    /\ log' = <<Event("request", RequestOf(m), None, <<>>)>>
    /\ task' = NoTask
    /\ pc' = "wait"
    /\ UNCHANGED <<host, lce, data>>

\* The server answers the request in flight (client.get/post/put returns).
Respond ==
    /\ pc \in {"wait", "wait2"}
    /\ \E status_code \in Statuses, body \in Bodies :
          response' = [status_code |-> status_code, body |-> body]
    /\ log' = Append(log, Event("response", "", response'.status_code, <<>>))
    /\ pc' = IF pc = "wait" THEN "handle" ELSE "handle2"
    /\ UNCHANGED <<op, synchronous, task_id, returned, task, host, lce, data>>

\* The method ends with `r`.
Finish(r) == returned' = r /\ pc' = "done"

\* response.json(): the body is read.
JsonRead == Event("json", "", response.status_code, <<>>)

\* The caller takes the result; the client is idle again and the objects
\* of the call are gone.
Done ==
    /\ pc = "done"
    /\ pc' = "idle"
    /\ op' = "none"
    /\ synchronous' = "True"
    /\ response' = NoResponse
    /\ task_id' = None
    /\ returned' = NotReturned
    /\ log' = <<>>
    /\ task' = NoTask
    /\ host' = NoHost
    /\ lce' = NoLce
    /\ data' = NoData

----------------------------------------------------------------------------
(* The task-triggering helpers *)

\* Mutant: any success status counts as accepted.
IsAcceptedAnySuccess(status_code, sameObject) ==
    status_code >= 200 /\ status_code < 300

\* `response.status_code is httplib.ACCEPTED`
IsAccepted(status_code, sameObject) == Is(status_code, ACCEPTED, sameObject)

\* Mutant: `if synchronous:` (truthiness instead of identity with True).
ShouldPollTruthy(s) == s \in {"True", "1"}

\* `synchronous is True`
ShouldPoll(s) == s = "True"

\* ForemanTask(id=task_id).poll(): _poll_task is entered.
StartPoll(id, poll_rate, timeout) ==
    [id |-> id, poll_rate |-> poll_rate, timeout |-> timeout,
     elapsed |-> 0, checks |-> 0]

\* Mutant: the helper swallows what the poll raises.
AfterPollSwallowing(outcome, id) ==
    IF outcome = "info" THEN Return("id", id, <<>>) ELSE ReturnNone

\* The helper after its poll ended with `outcome`: `return task_id`, unless
\* the poll raised.
AfterPoll(outcome, id) ==
    IF outcome = "info" THEN Return("id", id, <<>>) ELSE Raise(outcome)

publish == \E s \in SyncValues : Call("ContentView.publish", s)
promote == \E s \in SyncValues : Call("ContentViewVersion.promote", s)
sync == \E s \in SyncValues : Call("Repository.sync", s)
delete_manifest == \E s \in SyncValues : Call("Organization.delete_manifest", s)
refresh_manifest == \E s \in SyncValues : Call("Organization.refresh_manifest", s)
enable_rhrepo == \E s \in SyncValues : Call("Product.enable_rhrepo", s)
disable_rhrepo == \E s \in SyncValues : Call("Product.disable_rhrepo", s)

\* upload_manifest opens the manifest file before it posts it.
upload_manifest ==
    \E s \in SyncValues, readable \in BOOLEAN :
        IF readable
        THEN Call("Organization.upload_manifest", s)
        ELSE /\ pc = "idle"
             /\ op' = "Organization.upload_manifest"
             /\ synchronous' = s
             /\ response' = NoResponse
             /\ task_id' = None
             /\ log' = <<>>
             /\ task' = NoTask
             /\ Finish(Raise("IOError"))
             /\ UNCHANGED <<host, lce, data>>

\* A task-triggering helper from `response.raise_for_status()` on.
TaskHelperContinue ==
    /\ pc = "handle"
    /\ op \in TaskHelpers
    /\ \E sameObject \in BOOLEAN :
        IF RaisesForStatus(op) /\ raise_for_status(response.status_code)
        THEN /\ Finish(Raise("HTTPError"))
             /\ UNCHANGED <<task_id, log, task>>
        ELSE IF IsAccepted(response.status_code, sameObject)
        THEN IF response.body.kind # "task"
             THEN /\ log' = Append(log, JsonRead)
                  /\ Finish(Raise(IF response.body.kind = "invalid"
                                  THEN "ValueError" ELSE "KeyError"))
                  /\ UNCHANGED <<task_id, task>>
             ELSE /\ task_id' = response.body.id
                  /\ IF ShouldPoll(synchronous)
                     THEN /\ task' = StartPoll(task_id', DEFAULT_POLL_RATE,
                                               DEFAULT_TIMEOUT)
                          /\ log' = log \o <<JsonRead,
                                    Event("poll", "start", task_id', <<>>)>>
                          /\ pc' = "poll"
                          /\ UNCHANGED returned
                     ELSE /\ log' = Append(log, JsonRead)
                          /\ Finish(Return("id", task_id', <<>>))
                          /\ UNCHANGED task
        ELSE /\ Finish(ReturnNone)
             /\ UNCHANGED <<task_id, log, task>>
    /\ UNCHANGED <<op, synchronous, response, host, lce, data>>

----------------------------------------------------------------------------
(* The helpers that return the decoded response *)

add_subsciptions == Call("ActivationKey.add_subsciptions", synchronous)
subscriptions == Call("Organization.subscriptions", synchronous)
sync_plan == Call("Organization.sync_plan", synchronous)
list_rhproducts == Call("Organization.list_rhproducts", synchronous)
list_repositorysets == Call("Product.list_repositorysets", synchronous)
search == Call("Permission.search", synchronous)

\* response.json() of a helper of JsonHelpers.
DecodedJson(body) ==
    IF body.kind = "invalid" THEN Raise("ValueError")
    ELSE Return("json", body.id, body.results)

\* response.json()['results']
DecodedResults(body) ==
    IF body.kind = "invalid" THEN Raise("ValueError")
    ELSE IF body.kind # "list" THEN Raise("KeyError")
    ELSE Return("results", None, body.results)

\* A helper of JsonHelpers or ResultsHelpers from `response.raise_for_status()` on.
HelperContinue ==
    /\ pc = "handle"
    /\ op \in JsonHelpers \cup ResultsHelpers
    /\ IF RaisesForStatus(op) /\ raise_for_status(response.status_code)
       THEN /\ Finish(Raise("HTTPError"))
            /\ UNCHANGED log
       ELSE /\ log' = Append(log, JsonRead)
            /\ Finish(IF op \in JsonHelpers THEN DecodedJson(response.body)
                      ELSE DecodedResults(response.body))
    /\ UNCHANGED <<op, synchronous, response, task_id, task, host, lce, data>>

----------------------------------------------------------------------------
(* The uniqueness searches *)

Organization_fetch_rhproduct_id == Call("Organization.fetch_rhproduct_id", synchronous)
Product_fetch_rhproduct_id == Call("Product.fetch_rhproduct_id", synchronous)
fetch_reposet_id == Call("Product.fetch_reposet_id", synchronous)
fetch_repoid == Call("Repository.fetch_repoid", synchronous)

\* Mutant: only an empty list is refused.
UniqueIdFirst(results) ==
    IF Len(results) = 0 THEN Raise("APIResponseError")
    ELSE Return("id", results[1], <<>>)

\* `if len(results) != 1: raise APIResponseError(...)`, else results[0]['id'].
UniqueId(results) ==
    IF Len(results) # 1 THEN Raise("APIResponseError")
    ELSE Return("id", results[1], <<>>)

\* results = response.json()['results'], then the uniqueness test.
SearchResult(body) ==
    IF body.kind = "invalid" THEN Raise("ValueError")
    ELSE IF body.kind # "list" THEN Raise("KeyError")
    ELSE UniqueId(body.results)

\* A uniqueness search from `response.raise_for_status()` on.
SearchContinue ==
    /\ pc = "handle"
    /\ op \in UniqueSearches
    /\ IF RaisesForStatus(op) /\ raise_for_status(response.status_code)
       THEN /\ Finish(Raise("HTTPError"))
            /\ UNCHANGED log
       ELSE /\ log' = Append(log, JsonRead)
            /\ Finish(SearchResult(response.body))
    /\ UNCHANGED <<op, synchronous, response, task_id, task, host, lce, data>>

----------------------------------------------------------------------------
(* ActivationKey.read_raw *)

read_raw == Call("ActivationKey.read_raw", synchronous)

\* Mutant: any error status is retried.
ShouldRetryAnyError(status_code, sameObject, bug_open) ==
    status_code >= 400 /\ bug_open

\* `response.status_code is 404 and bz_bug_is_open(1127335)`
ShouldRetry(status_code, sameObject, bug_open) ==
    Is(status_code, NOT_FOUND, sameObject) /\ bug_open

\* read_raw after the first super_read_raw: sleep and read once more, or
\* return the response.
ReadRawContinue ==
    /\ pc = "handle"
    /\ op = "ActivationKey.read_raw"
    /\ \E sameObject \in BOOLEAN, bug_open \in BOOLEAN :
        IF ShouldRetry(response.status_code, sameObject, bug_open)
        THEN /\ log' = log \o <<Event("sleep", "", RETRY_SLEEP, <<>>),
                                Event("request", RequestOf(op), None, <<>>)>>
             /\ pc' = "wait2"
             /\ UNCHANGED returned
        ELSE /\ Finish(Return("response", response.status_code, <<>>))
             /\ UNCHANGED log
    /\ UNCHANGED <<op, synchronous, response, task_id, task, host, lce, data>>

\* read_raw after the second super_read_raw: `return response`.
ReadRawReturn ==
    /\ pc = "handle2"
    /\ op = "ActivationKey.read_raw"
    /\ Finish(Return("response", response.status_code, <<>>))
    /\ UNCHANGED <<op, synchronous, response, task_id, log, task, host, lce, data>>

----------------------------------------------------------------------------
(* ForemanTask.poll and orm._poll_task *)

\* What poll returns or raises when the loop ended with `outcome`.
PollResult(outcome) ==
    IF outcome = "info" THEN Return("info", task.id, <<>>) ELSE Raise(outcome)

\* The loop ends; a helper that called poll goes on from there.
EndPoll(outcome) ==
    /\ log' = Append(log, Event("poll", outcome, task.id, <<>>))
    /\ Finish(IF op = "ForemanTask.poll"
              THEN PollResult(outcome) ELSE AfterPoll(outcome, task_id))

poll ==
    \E id \in Ids, poll_rate \in PollRates, timeout \in Timeouts :
        /\ pc = "idle"
        /\ op' = "ForemanTask.poll"
        /\ synchronous' = "True"
        /\ response' = NoResponse
        /\ task_id' = None
        /\ returned' = NotReturned
        /\ task' = StartPoll(id, poll_rate, timeout)
        /\ log' = <<Event("poll", "start", id, <<>>)>>
        /\ pc' = "poll"
        /\ UNCHANGED <<host, lce, data>>

\* Mutant: the timeout is never looked at.
TimedOutNever(t) == FALSE

\* The timer of the loop has run out.
TimedOut(t) == t.elapsed > t.timeout

\* The task as it is after one more unfinished check and the sleep after it.
Slept(t) == [t EXCEPT !.elapsed = @ + t.poll_rate, !.checks = @ + 1]

\* One round of the loop: time out, or check the task's status and return
\* its information, fail on an HTTP error, or sleep poll_rate seconds.
poll_task ==
    /\ pc = "poll"
    /\ IF TimedOut(task)
       THEN EndPoll("TaskTimeout") /\ UNCHANGED task
       ELSE \E status_code \in Statuses, state \in TaskStates :
            IF raise_for_status(status_code)
            THEN /\ EndPoll("HTTPError")
                 /\ task' = [task EXCEPT !.checks = @ + 1]
            ELSE IF state # "running"
            THEN /\ EndPoll("info")
                 /\ task' = [task EXCEPT !.checks = @ + 1]
            ELSE /\ task' = Slept(task)
                 /\ UNCHANGED <<pc, returned, log>>
    /\ UNCHANGED <<op, synchronous, response, task_id, host, lce, data>>

----------------------------------------------------------------------------
(* Dependent entities: <Entity>(...).create()['id'] *)

Entities == {"Architecture", "PartitionTable", "OperatingSystem", "Media",
             "Organization"}

\* The position inside the create of an entity.
InCreate(entity) ==
    CASE entity = "Architecture" -> "Architecture.create"
      [] entity = "PartitionTable" -> "PartitionTable.create"
      [] entity = "OperatingSystem" -> "OperatingSystem.create"
      [] entity = "Media" -> "Media.create"
      [] entity = "Organization" -> "Organization.create"

\* Mutant: the medium is pointed at the architecture.
CreateArgsWrongMedium(entity, h) ==
    CASE entity = "OperatingSystem" -> <<h.architecture, h.ptable>>
      [] entity = "Media" -> <<h.architecture>>
      [] OTHER -> <<>>

\* The ids an entity is constructed with: OperatingSystem(architecture=
\* [self.architecture], ptable=[self.ptable]), Media(operatingsystem=
\* [self.operatingsystem]); the others take none.
CreateArgs(entity, h) ==
    CASE entity = "OperatingSystem" -> <<h.architecture, h.ptable>>
      [] entity = "Media" -> <<h.operatingsystem>>
      [] OTHER -> <<>>

\* The host with the id of the entity just created assigned to its field.
Assigned(entity, h, id) ==
    CASE entity = "Architecture" -> [h EXCEPT !.architecture = id]
      [] entity = "PartitionTable" -> [h EXCEPT !.ptable = id]
      [] entity = "OperatingSystem" -> [h EXCEPT !.operatingsystem = id]
      [] entity = "Media" -> [h EXCEPT !.medium = id]
      [] OTHER -> h

\* Where the method goes on after the create of an entity has returned.
AfterCreate(entity) ==
    CASE entity = "Architecture" -> "PartitionTable"
      [] entity = "PartitionTable" -> "OperatingSystem"
      [] entity = "OperatingSystem" -> "Media"
      [] entity = "Media" -> "proxy"
      [] entity = "Organization" -> "library"

\* The entity is constructed and its create is called.
StartCreate ==
    /\ pc \in Entities
    /\ log' = Append(log, Event("create", pc, None, CreateArgs(pc, host)))
    /\ pc' = InCreate(pc)
    /\ UNCHANGED <<op, synchronous, response, task_id, returned, task, host, lce, data>>

\* The create returns the new entity's attributes, or raises.
CreateReturn ==
    \E entity \in Entities :
        /\ pc = InCreate(entity)
        /\ \E ok \in BOOLEAN, id \in Ids :
            IF ok
            THEN /\ log' = Append(log, Event("created", entity, id, <<>>))
                 /\ host' = Assigned(entity, host, id)
                 /\ lce' = IF entity = "Organization"
                           THEN [lce EXCEPT !.organization = id] ELSE lce
                 /\ pc' = AfterCreate(entity)
                 /\ UNCHANGED returned
            ELSE /\ log' = Append(log, Event("failed", entity, None, <<>>))
                 /\ Finish(Raise("HTTPError"))
                 /\ UNCHANGED <<host, lce>>
        /\ UNCHANGED <<op, synchronous, response, task_id, task, data>>

----------------------------------------------------------------------------
(* Host._factory_data *)

OptionalIds == Ids \cup {None}

Hosts == [operatingsystem : OptionalIds, architecture : OptionalIds,
          ptable : OptionalIds, medium : OptionalIds, puppet_proxy : OptionalIds]

\* Mutant: `or` in place of `and`.
NeedsDependentsAny(h) ==
    \/ h.operatingsystem = None
    \/ h.architecture = None
    \/ h.ptable = None
    \/ h.medium = None

\* `self.operatingsystem is None and self.architecture is None and
\*  self.ptable is None and self.medium is None`
NeedsDependents(h) ==
    /\ h.operatingsystem = None
    /\ h.architecture = None
    /\ h.ptable = None
    /\ h.medium = None

Host_factory_data ==
    \E h \in Hosts :
        /\ pc = "idle"
        /\ op' = "Host._factory_data"
        /\ host' = h
        /\ response' = NoResponse
        /\ task_id' = None
        /\ returned' = NotReturned
        /\ log' = <<Event("call", "Host._factory_data", h.puppet_proxy,
                          <<h.operatingsystem, h.architecture, h.ptable,
                            h.medium>>)>>
        /\ task' = NoTask
        /\ pc' = IF NeedsDependents(h) THEN "Architecture" ELSE "proxy"
        /\ UNCHANGED <<synchronous, lce, data>>

\* `if self.puppet_proxy is None:` the smart proxies are listed; otherwise
\* super()._factory_data() is returned.
HostProxy ==
    /\ pc = "proxy"
    /\ IF host.puppet_proxy = None
       THEN /\ log' = Append(log, Event("request", RequestOf(op), None, <<>>))
            /\ pc' = "wait"
            /\ UNCHANGED returned
       ELSE /\ Finish(Return("values", None, <<>>))
            /\ UNCHANGED log
    /\ UNCHANGED <<op, synchronous, response, task_id, task, host, lce, data>>

\* response.json()['results'][0]['id']
FirstId(body) ==
    IF body.kind = "invalid" THEN Raise("ValueError")
    ELSE IF body.kind # "list" THEN Raise("KeyError")
    ELSE IF Len(body.results) = 0 THEN Raise("IndexError")
    ELSE Return("id", body.results[1], <<>>)

\* _factory_data from `response.raise_for_status()` on.
HostContinue ==
    /\ pc = "handle"
    /\ op = "Host._factory_data"
    /\ IF RaisesForStatus(op) /\ raise_for_status(response.status_code)
       THEN /\ Finish(Raise("HTTPError"))
            /\ UNCHANGED <<log, host>>
       ELSE /\ log' = Append(log, JsonRead)
            /\ IF FirstId(response.body).kind = "id"
               THEN /\ host' = [host EXCEPT
                                  !.puppet_proxy = FirstId(response.body).id]
                    /\ Finish(Return("values", None, <<>>))
               ELSE /\ Finish(FirstId(response.body))
                    /\ UNCHANGED host
    /\ UNCHANGED <<op, synchronous, response, task_id, task, lce, data>>

----------------------------------------------------------------------------
(* LifecycleEnvironment.build *)

Lces == [organization : OptionalIds, prior : OptionalIds]

build ==
    \E l \in Lces :
        /\ pc = "idle"
        /\ op' = "LifecycleEnvironment.build"
        /\ lce' = l
        /\ response' = NoResponse
        /\ task_id' = None
        /\ returned' = NotReturned
        /\ log' = <<Event("call", "LifecycleEnvironment.build", None,
                          <<l.organization, l.prior>>)>>
        /\ task' = NoTask
        /\ pc' = IF l.organization = None THEN "Organization" ELSE "library"
        /\ UNCHANGED <<synchronous, host, data>>

\* Mutant: the 'Library' environment is looked up whatever prior is.
NeedsPriorAlways(l) == TRUE

\* `self.prior is None`
NeedsPrior(l) == l.prior = None

\* `if self.prior is None:` the 'Library' environment of the organization
\* is searched for; otherwise super().build(auth) is returned.
BuildLibrary ==
    /\ pc = "library"
    /\ IF NeedsPrior(lce)
       THEN /\ log' = Append(log, Event("request", RequestOf(op), None,
                                        <<lce.organization>>))
            /\ pc' = "wait"
            /\ UNCHANGED returned
       ELSE /\ Finish(Return("values", None, <<>>))
            /\ UNCHANGED log
    /\ UNCHANGED <<op, synchronous, response, task_id, task, host, lce, data>>

\* build from `.json()['results']` on.
BuildContinue ==
    /\ pc = "handle"
    /\ op = "LifecycleEnvironment.build"
    /\ IF RaisesForStatus(op) /\ raise_for_status(response.status_code)
       THEN /\ Finish(Raise("HTTPError"))
            /\ UNCHANGED <<log, lce>>
       ELSE /\ log' = Append(log, JsonRead)
            /\ IF SearchResult(response.body).kind = "id"
               THEN /\ lce' = [lce EXCEPT
                                 !.prior = SearchResult(response.body).id]
                    /\ Finish(Return("values", None, <<>>))
               ELSE /\ Finish(SearchResult(response.body))
                    /\ UNCHANGED lce
    /\ UNCHANGED <<op, synchronous, response, task_id, task, host, data>>

----------------------------------------------------------------------------
(* Methods that work on a dict: _factory_data, path, create, read *)

\* A dict is a function from its keys; `key in d.keys()`.
HasKey(d, key) == key \in DOMAIN d

\* `d[key] = value` for every key of keys.
SetAll(d, keys, value) ==
    [k \in DOMAIN d \cup keys |-> IF k \in keys THEN value ELSE d[k]]

\* The fields AuthSourceLDAP._factory_data fills in from get_value().
OntheflyFields == {"account_password", "attr_firstname", "attr_lastname",
                   "attr_login", "attr_mail"}

\* The values the factory produces for an AuthSourceLDAP: the required name,
\* and any of the nullable fields; onthefly_register is a boolean or None.
LdapValues ==
    UNION {[{"name"} \cup fields -> {"default"}] :
                fields \in SUBSET OntheflyFields}
    \cup
    UNION {{SetAll(d, {"onthefly_register"}, b) :
                d \in [{"name"} \cup fields -> {"default"}]} :
           fields \in SUBSET OntheflyFields, b \in {"True", "False", "None"}}

\* AuthSourceLDAP._factory_data: `values['ontheflyregister']` is looked up
\* whenever 'onthefly_register' is a key, and a missing key raises KeyError.
AuthSourceLDAP_factory_data ==
    \E values \in LdapValues :
        /\ pc = "idle"
        /\ pc' = "done"
        /\ op' = "AuthSourceLDAP._factory_data"
        /\ log' = <<Event("call", "AuthSourceLDAP._factory_data", None,
                          values)>>
        /\ IF HasKey(values, "onthefly_register")
           THEN IF ~HasKey(values, "ontheflyregister")
                THEN /\ returned' = Raise("KeyError")
                     /\ data' = values
                ELSE /\ returned' = Return("values", None, <<>>)
                     /\ data' = IF values["ontheflyregister"] = "True"
                                THEN SetAll(values, OntheflyFields,
                                            "generated")
                                ELSE values
           ELSE /\ returned' = Return("values", None, <<>>)
                /\ data' = values
        /\ UNCHANGED <<synchronous, response, task_id, task, host, lce>>

\* Python's None where an object is expected, and an object that is there.
NoneArg == <<>>
Some(x) == <<x>>

\* The names a caller passes as `which`: those of robottelo.orm.Entity.path,
\* the sub-paths the classes of this file add, and names no class knows.
WhichNames ==
    {"self", "base", "this", "bulk_search", "releases", "subscriptions",
     "promote", "content_view_puppet_modules", "content_view_versions",
     "publish", "available_puppet_module_names", "products",
     "subscriptions/delete_manifest", "subscriptions/refresh_manifest",
     "subscriptions/upload", "sync_plans", "sync", "upload_content",
     "repository_sets", "repository_sets/1/enable", "repository_sets_x",
     "repository", "other"}
Whiches == {NoneArg} \cup {Some(w) : w \in WhichNames}

\* The UUIDs of a System.
Uuids == {"uuid-a", "uuid-b"}

\* `super(...).path(which)`: the path robottelo.orm.Entity.path gives this
\* entity for `which`, and the segments appended to it.
SuperPath(which) == [super |-> which, tail |-> <<>>]

\* '{0}/{1}'.format(path, segment)
Join(path, segment) == [path EXCEPT !.tail = Append(@, segment)]

\* A method that computes its result from its arguments alone.
Compute(m, args, result) ==
    /\ pc = "idle"
    /\ pc' = "done"
    /\ op' = m
    /\ log' = <<Event("call", m, None, args)>>
    /\ returned' = result
    /\ UNCHANGED <<synchronous, response, task_id, task, host, lce, data>>

\* The path System.path returns.
SystemPath(uuid, which) ==
    IF uuid # NoneArg /\ (which = NoneArg \/ which = Some("self"))
    THEN Join(SuperPath(Some("base")), uuid[1])
    ELSE SuperPath(which)

\* System.path
System_path ==
    \E uuid \in {NoneArg} \cup {Some(u) : u \in Uuids}, which \in Whiches :
        Compute("System.path", <<uuid, which>>,
                Return("path", None, <<SystemPath(uuid, which)>>))

\* Mutant: every other `which` is handed to the default implementation.
ForemanTaskPathDefault(which) ==
    IF which = Some("bulk_search")
    THEN Join(SuperPath(Some("base")), "bulk_search")
    ELSE SuperPath(which)

\* The path ForemanTask.path returns.
ForemanTaskPath(which) ==
    IF which = Some("bulk_search")
    THEN Join(SuperPath(Some("base")), "bulk_search")
    ELSE SuperPath(Some("self"))

\* ForemanTask.path
ForemanTask_path ==
    \E which \in Whiches :
        Compute("ForemanTask.path", <<which>>,
                Return("path", None, <<ForemanTaskPath(which)>>))

\* The path methods that add sub-paths to the default ones.
PathMethods == {"ActivationKey.path", "ContentView.path",
                "ContentViewVersion.path", "Organization.path",
                "Product.path", "Repository.path"}

\* str.startswith on the names of the model (TLA+ strings are atoms).
StartsWith(s, prefix) ==
    /\ prefix = "repository_sets"
    /\ s \in {"repository_sets", "repository_sets/1/enable",
              "repository_sets_x"}

\* Mutant: Organization.path does not know 'subscriptions'; Product.path
\* knows 'repository_sets' alone.
IsSubPathFewer(m, which) ==
    CASE m = "ActivationKey.path" -> which = Some("releases")
      [] m = "ContentViewVersion.path" -> which = Some("promote")
      [] m = "ContentView.path" ->
            which \in {Some("content_view_puppet_modules"),
                       Some("content_view_versions"), Some("publish")}
      [] m = "Organization.path" ->
            which \in {Some("products"), Some("sync_plans")}
      [] m = "Product.path" -> which = Some("repository_sets")
      [] m = "Repository.path" -> which = Some("sync")

\* The test each path method makes of `which` before it calls super.
IsSubPath(m, which) ==
    CASE m = "ActivationKey.path" ->
            which \in {Some("releases"), Some("subscriptions")}
      [] m = "ContentViewVersion.path" -> which = Some("promote")
      [] m = "ContentView.path" ->
            which \in {Some("content_view_puppet_modules"),
                       Some("content_view_versions"), Some("publish"),
                       Some("available_puppet_module_names")}
      [] m = "Organization.path" ->
            which \in {Some("products"),
                       Some("subscriptions/delete_manifest"),
                       Some("subscriptions/refresh_manifest"),
                       Some("subscriptions/upload"), Some("sync_plans"),
                       Some("subscriptions")}
      [] m = "Product.path" ->
            which # NoneArg /\ StartsWith(which[1], "repository_sets")
      [] m = "Repository.path" ->
            which \in {Some("sync"), Some("upload_content")}

\* The path a path method returns: ContentViewVersion appends
\* '/promote', the others format '<self path>/<which>'.
SubPath(m, which) ==
    IF IsSubPath(m, which)
    THEN IF m = "ContentViewVersion.path"
         THEN Join(SuperPath(Some("self")), "promote")
         ELSE Join(SuperPath(Some("self")), which[1])
    ELSE SuperPath(which)

\* A path method called with `which`.
PathOf(m) ==
    \E which \in Whiches :
        Compute(m, <<which>>,
                Return("path", None, <<SubPath(m, which)>>))

ActivationKey_path == PathOf("ActivationKey.path")
ContentViewVersion_path == PathOf("ContentViewVersion.path")
ContentView_path == PathOf("ContentView.path")
Organization_path == PathOf("Organization.path")
Product_path == PathOf("Product.path")
Repository_path == PathOf("Repository.path")

\* The create methods that wrap the payload.
CreateMethods == {"Architecture.create", "Media.create",
                  "OperatingSystem.create", "User.create"}

\* The credentials a caller passes as `auth`.
Auths == {NoneArg, Some("admin")}

\* `self.build(auth=auth)`: the field values robottelo.factory builds for
\* the entity of method m with these credentials.
Build(m, auth) == [built_by |-> m, auth |-> auth]

\* The dicts a caller passes as `data`: empty, bare field values, and
\* values the caller has wrapped already.
CallerData ==
    {[k \in {} |-> "foo"], [name |-> "foo"]}
    \cup {[k \in {key} |-> [name |-> "foo"]] :
            key \in {"architecture", "medium", "operatingsystem", "user"}}

\* The key each create wraps the built values in.
PayloadKey(m) ==
    CASE m = "Architecture.create" -> "architecture"
      [] m = "Media.create" -> "medium"
      [] m = "OperatingSystem.create" -> "operatingsystem"
      [] m = "User.create" -> "user"

\* Mutant: data that is empty is replaced as None is.
NeedsBuildFalsy(payload) == payload = NoneArg \/ DOMAIN payload[1] = {}

\* `data is None`
NeedsBuild(payload) == payload = NoneArg

\* create(auth, data): the values are built and wrapped if no data was
\* given, and super().create is called with the payload; an exception of
\* build ends the method.
CreateOf(m) ==
    \E auth \in Auths, payload \in {NoneArg} \cup {Some(d) : d \in CallerData},
       built \in BOOLEAN :
        /\ pc = "idle"
        /\ pc' = "done"
        /\ op' = m
        /\ IF NeedsBuild(payload)
           THEN IF built
                THEN /\ data' = [k \in {PayloadKey(m)} |-> Build(m, auth)]
                     /\ log' = <<Event("call", m, None, <<auth, payload>>),
                                 Event("build", m, None, <<auth>>),
                                 Event("super.create", m, None,
                                       <<auth, data'>>)>>
                     /\ returned' = Return("super.create", None, <<>>)
                ELSE /\ data' = data
                     /\ log' = <<Event("call", m, None, <<auth, payload>>),
                                 Event("build", m, None, <<auth>>)>>
                     /\ returned' = Raise("HTTPError")
           ELSE /\ data' = payload[1]
                /\ log' = <<Event("call", m, None, <<auth, payload>>),
                            Event("super.create", m, None, <<auth, data'>>)>>
                /\ returned' = Return("super.create", None, <<>>)
        /\ UNCHANGED <<synchronous, response, task_id, task, host, lce>>

Architecture_create == CreateOf("Architecture.create")
Media_create == CreateOf("Media.create")
OperatingSystem_create == CreateOf("OperatingSystem.create")
User_create == CreateOf("User.create")

\* The read methods that rename an attribute of the server's answer.
ReadMethods == {"Architecture.read", "Media.read", "Repository.read"}

\* The hashes the server describes an entity with: with its id, or (a
\* malformed answer) without.
Hashes == {[id |-> i, name |-> "rhel"] : i \in Ids} \cup {[name |-> "rhel"]}

\* The lists of at most MaxResults such hashes.
HashLists == UNION {[1 .. n -> Hashes] : n \in 0 .. MaxResults}

\* The attributes read may work on: a name, and perhaps the attribute the
\* method renames (a list of hashes, or for Repository one hash).
Attrs(m) ==
    LET pointed == IF m = "Repository.read" THEN Hashes ELSE HashLists
        key == IF m = "Repository.read" THEN "product"
               ELSE "operatingsystems"
    IN  {[name |-> "foo"]}
        \cup {SetAll([name |-> "foo"], {key}, p) : p \in pointed}

\* Mutant: the attribute is read and left in place.
PopKeeping(d, key) == d

\* The dict after `d.pop(key)`.
Pop(d, key) == [k \in DOMAIN d \ {key} |-> d[k]]

\* `[operatingsystem['id'] for operatingsystem in list]`
IdsOf(list) == [i \in 1 .. Len(list) |-> list[i].id]

\* The attributes after the renaming of the method, and whether it went
\* through: a missing attribute or 'id' raises KeyError, the first after
\* nothing was changed and the second after the pop.
Renamed(m, attrs) ==
    IF m = "Repository.read"
    THEN IF ~HasKey(attrs, "product")
         THEN [ok |-> FALSE, attrs |-> attrs]
         ELSE IF ~HasKey(attrs["product"], "id")
              THEN [ok |-> FALSE, attrs |-> Pop(attrs, "product")]
              ELSE [ok |-> TRUE,
                    attrs |-> SetAll(Pop(attrs, "product"), {"product_id"},
                                     attrs["product"].id)]
    ELSE IF ~HasKey(attrs, "operatingsystems")
         THEN [ok |-> FALSE, attrs |-> attrs]
         ELSE IF \E i \in 1 .. Len(attrs["operatingsystems"]) :
                    ~HasKey(attrs["operatingsystems"][i], "id")
              THEN [ok |-> FALSE, attrs |-> Pop(attrs, "operatingsystems")]
              ELSE [ok |-> TRUE,
                    attrs |-> SetAll(Pop(attrs, "operatingsystems"),
                                     {"operatingsystem_ids"},
                                     IdsOf(attrs["operatingsystems"]))]

\* read(auth, entity, attrs): the attributes are fetched with read_json if
\* none were given (read_json raises on an error response), the attribute
\* is renamed, and super().read gets the result.
ReadOf(m) ==
    \E auth \in Auths, given \in {NoneArg} \cup {Some(a) : a \in Attrs(m)},
       fetched \in {NoneArg} \cup {Some(a) : a \in Attrs(m)} :
        /\ pc = "idle"
        /\ pc' = "done"
        /\ op' = m
        /\ given # NoneArg => fetched = NoneArg
        /\ LET call == Event("call", m, None, <<auth, given>>)
               fetch == Event("read_json", m, None, <<auth, fetched>>)
               attrs == IF given = NoneArg THEN fetched ELSE given
               before == IF given = NoneArg THEN <<call, fetch>>
                         ELSE <<call>>
           IN  IF attrs = NoneArg
               THEN /\ log' = before
                    /\ data' = data
                    /\ returned' = Raise("HTTPError")
               ELSE /\ data' = Renamed(m, attrs[1]).attrs
                    /\ IF Renamed(m, attrs[1]).ok
                       THEN /\ log' = Append(before,
                                        Event("super.read", m, None,
                                              <<auth, data'>>))
                            /\ returned' = Return("super.read", None, <<>>)
                       ELSE /\ log' = before
                            /\ returned' = Raise("KeyError")
        /\ UNCHANGED <<synchronous, response, task_id, task, host, lce>>

Architecture_read == ReadOf("Architecture.read")
Media_read == ReadOf("Media.read")
Repository_read == ReadOf("Repository.read")

\* TemplateKind.Meta.NUM_CREATED_BY_DEFAULT
NUM_CREATED_BY_DEFAULT == 8

\* The template kinds a caller gives: ids of the server, and one beyond the
\* kinds a server is created with.
GivenKinds == Ids \cup {NUM_CREATED_BY_DEFAULT + 1}

\* The values the factory produces for a ConfigTemplate: the required name
\* and template, snippet (a boolean or None) unless it is left out, and the
\* template kind if one was given.
TemplateValues ==
    LET required == [name |-> "default", template |-> "default"]
        snippets == {required} \cup
                    {SetAll(required, {"snippet"}, b) :
                        b \in {"True", "False", "None"}}
    IN  snippets \cup
        {SetAll(d, {"template_kind_id"}, k) :
            d \in snippets, k \in GivenKinds}

\* Mutant: the value is stored whether the key is there or not.
SetDefaultOverwriting(d, key, value) == SetAll(d, {key}, value)

\* The dict after `d.setdefault(key, value)`.
SetDefault(d, key, value) ==
    IF HasKey(d, key) THEN d ELSE SetAll(d, {key}, value)

\* ConfigTemplate._factory_data: random.choice picks one of the kinds a
\* server is created with.
ConfigTemplate_factory_data ==
    \E values \in TemplateValues, choice \in 1 .. NUM_CREATED_BY_DEFAULT :
        /\ pc = "idle"
        /\ pc' = "done"
        /\ op' = "ConfigTemplate._factory_data"
        /\ log' = <<Event("call", "ConfigTemplate._factory_data", None,
                          values)>>
        /\ data' = IF HasKey(values, "snippet")
                      /\ values["snippet"] = "False"
                   THEN SetDefault(values, "template_kind_id", choice)
                   ELSE values
        /\ returned' = Return("values", None, <<>>)
        /\ UNCHANGED <<synchronous, response, task_id, task, host, lce>>

\* A Python value of a Meta: a str, a tuple of strs (as `('sat', 'sam')`;
\* `('sat')` is the str 'sat'), or nothing of the class's own.
Str(s) == [type |-> "str", items |-> <<s>>]
Tuple(items) == [type |-> "tuple", items |-> items]
Inherited == [type |-> "inherited", items |-> <<>>]

\* The Meta a class body declares, and that of a class body without one.
Declared(api_path, server_modes) ==
    [own |-> TRUE, api_path |-> api_path, server_modes |-> server_modes]
NoMeta == [own |-> FALSE, api_path |-> Inherited, server_modes |-> Inherited]

\* The Meta of every entity class of the file, as its class body writes it.
Metas ==
    [
     ActivationKey |->
        Declared(Str("katello/api/v2/activation_keys"),
            Tuple(<<"sat", "sam">>)),
     Architecture |->
        Declared(Str("api/v2/architectures"),
            Str("sat")),
     AuthSourceLDAP |->
        Declared(Str("api/v2/auth_source_ldaps"),
            Str("sat")),
     Bookmark |->
        Declared(Str("api/v2/bookmarks"),
            Str("sat")),
     CommonParameter |->
        Declared(Str("api/v2/common_parameters"),
            Str("sat")),
     ComputeAttribute |->
        Declared(Str("api/v2/compute_attributes"),
            Str("sat")),
     ComputeProfile |->
        Declared(Str("api/v2/compute_profiles"),
            Str("sat")),
     ComputeResource |->
        Declared(Str("api/v2/compute_resources"),
            Str("sat")),
     ConfigGroup |->
        Declared(Str("api/v2/config_groups"),
            Str("sat")),
     ConfigTemplate |->
        Declared(Str("api/v2/config_templates"),
            Str("sat")),
     ContentUpload |->
        Declared(Str("katello/api/v2/repositories/:repository_id/content_uploads"),
            Str("sat")),
     ContentViewVersion |->
        Declared(Str("katello/api/v2/content_view_versions"),
            Str("sat")),
     ContentViewFilterRule |->
        Declared(Str("katello/api/v2/content_view_filters/:content_view_filter_id/rules"),
            Str("sat")),
     ContentViewFilter |->
        Declared(Str("katello/api/v2/content_view_filters"),
            Str("sat")),
     ContentViewPuppetModule |->
        Declared(Str("katello/api/v2/content_views/:content_view_id/content_view_puppet_modules"),
            Str("sat")),
     ContentView |->
        Declared(Str("katello/api/v2/content_views"),
            Str("sat")),
     CustomInfo |->
        Declared(Str("katello/api/v2/custom_info/:informable_type/:informable_id"),
            Str("sat")),
     Domain |->
        Declared(Str("api/v2/domains"),
            Str("sat")),
     Environment |->
        Declared(Str("api/v2/environments"),
            Str("sat")),
     Errata |->
        Declared(Str("api/v2/errata"),
            Str("sat")),
     Filter |->
        Declared(Str("api/v2/filters"),
            Str("sat")),
     ForemanTask |->
        Declared(Str("foreman_tasks/api/tasks"),
            Str("sat")),
     GPGKey |->
        Declared(Str("katello/api/v2/gpg_keys"),
            Str("sat")),
     HostClasses |->
        Declared(Str("api/v2/hosts/:host_id/puppetclass_ids"),
            Str("sat")),
     HostCollectionErrata |->
        Declared(Str("katello/api/v2/organizations/:organization_id/host_collections/:host_collection_id/errata"),
            Str("sat")),
     HostCollectionPackage |->
        Declared(Str("katello/api/v2/organizations/:organization_id/host_collections/:host_collection_id/packages"),
            Str("sat")),
     HostCollection |->
        Declared(Str("katello/api/v2/host_collections"),
            Tuple(<<"sat", "sam">>)),
     HostGroupClasses |->
        Declared(Str("api/v2/hostgroups/:hostgroup_id/puppetclass_ids"),
            Str("sat")),
     HostGroup |->
        Declared(Str("api/v2/hostgroups"),
            Str("sat")),
     Host |->
        Declared(Str("api/v2/hosts"),
            Str("sat")),
     Image |->
        Declared(Str("api/v2/compute_resources/:compute_resource_id/images"),
            Str("sat")),
     Interface |->
        Declared(Str("api/v2/hosts/:host_id/interfaces"),
            Str("sat")),
     LifecycleEnvironment |->
        Declared(Str("katello/api/v2/environments"),
            Str("sat")),
     Location |->
        Declared(Str("api/v2/locations"),
            Str("sat")),
     Media |->
        Declared(Str("api/v2/media"),
            Str("sat")),
     Model |->
        Declared(Str("api/v2/models"),
            Str("sat")),
     OperatingSystem |->
        Declared(Str("api/v2/operatingsystems"),
            Str("sat")),
     OperatingSystemParameter |->
        NoMeta,
     OrganizationDefaultInfo |->
        Declared(Str("katello/api/v2/organizations/:organization_id/default_info/:informable_type"),
            Tuple(<<"sat", "sam">>)),
     Organization |->
        Declared(Str("katello/api/v2/organizations"),
            Tuple(<<"sat", "sam">>)),
     OSDefaultTemplate |->
        Declared(Str("api/v2/operatingsystems/:operatingsystem_id/os_default_templates"),
            Str("sat")),
     OverrideValue |->
        Declared(Tuple(<<"/api/v2/smart_variables/:smart_variable_id/override_values", "/api/v2/smart_class_parameters/:smart_class_parameter_id/override_values">>),
            Str("sat")),
     Permission |->
        Declared(Str("api/v2/permissions"),
            Tuple(<<"sat", "sam">>)),
     Ping |->
        Declared(Str("katello/api/v2/ping"),
            Tuple(<<"sat", "sam">>)),
     Product |->
        Declared(Str("katello/api/v2/products"),
            Tuple(<<"sat", "sam">>)),
     PartitionTable |->
        Declared(Str("api/v2/ptables"),
            Str("sat")),
     PuppetClass |->
        Declared(Str("api/v2/puppetclasses"),
            Str("sat")),
     Realm |->
        Declared(Str("api/v2/realms"),
            Str("sat")),
     Report |->
        Declared(Str("api/v2/reports"),
            Str("sat")),
     Repository |->
        Declared(Str("katello/api/v2/repositories"),
            Str("sat")),
     RoleLDAPGroups |->
        Declared(Str("katello/api/v2/roles/:role_id/ldap_groups"),
            Tuple(<<"sat", "sam">>)),
     Role |->
        Declared(Str("api/v2/roles"),
            Tuple(<<"sat", "sam">>)),
     SmartProxy |->
        Declared(Str("api/v2/smart_proxies"),
            Str("sat")),
     SmartVariable |->
        Declared(Str("api/v2/smart_variables"),
            Str("sat")),
     Status |->
        Declared(Str("katello/api/v2/status"),
            Str("sat")),
     Subnet |->
        Declared(Str("api/v2/subnets"),
            Str("sat")),
     Subscription |->
        Declared(Str("katello/api/v2/subscriptions/:id"),
            Tuple(<<"sat", "sam">>)),
     SyncPlan |->
        Declared(Str("katello/api/v2/organizations/:organization_id/sync_plans"),
            Str("sat")),
     SystemPackage |->
        Declared(Str("katello/api/v2/systems/:system_id/packages"),
            Str("sat")),
     System |->
        Declared(Str("katello/api/v2/systems"),
            Tuple(<<"sat", "sam">>)),
     TemplateCombination |->
        Declared(Str("api/v2/config_templates/:config_template_id/template_combinations"),
            Str("sat")),
     TemplateKind |->
        Declared(Str("api/v2/template_kinds"),
            Str("sat")),
     UserGroup |->
        Declared(Str("api/v2/usergroups"),
            Str("sat")),
     User |->
        Declared(Str("api/v2/users"),
            Tuple(<<"sat", "sam">>))
    ]

\* The Meta of an entity class is looked at.
Meta ==
    \E class \in DOMAIN Metas :
        Compute("Meta", <<class>>, Return("Meta", None, <<Metas[class]>>))

Next ==
    \/ publish \/ promote \/ sync \/ upload_manifest \/ delete_manifest
    \/ refresh_manifest \/ enable_rhrepo \/ disable_rhrepo
    \/ TaskHelperContinue
    \/ add_subsciptions \/ subscriptions \/ sync_plan \/ list_rhproducts
    \/ list_repositorysets \/ search \/ HelperContinue
    \/ Organization_fetch_rhproduct_id \/ Product_fetch_rhproduct_id
    \/ fetch_reposet_id \/ fetch_repoid \/ SearchContinue
    \/ read_raw \/ ReadRawContinue \/ ReadRawReturn
    \/ poll \/ poll_task
    \/ StartCreate \/ CreateReturn
    \/ Host_factory_data \/ HostProxy \/ HostContinue
    \/ build \/ BuildLibrary \/ BuildContinue
    \/ AuthSourceLDAP_factory_data
    \/ System_path \/ ForemanTask_path
    \/ ActivationKey_path \/ ContentViewVersion_path \/ ContentView_path
    \/ Organization_path \/ Product_path \/ Repository_path
    \/ Architecture_create \/ Media_create \/ OperatingSystem_create \/ User_create
    \/ Architecture_read \/ Media_read \/ Repository_read
    \/ ConfigTemplate_factory_data
    \/ Meta
    \/ Respond \/ Done

Spec == Init /\ [][Next]_vars

\* The running method keeps running: a loop round that can be taken is taken.
FairSpec == Spec /\ WF_vars(poll_task)

----------------------------------------------------------------------------
(* Reading the log *)

Requests == {i \in DOMAIN log : log[i].ev = "request"}
JsonReads == {i \in DOMAIN log : log[i].ev = "json"}
PollStarts == {i \in DOMAIN log : log[i].ev = "poll" /\ log[i].what = "start"}
PollEvents == {i \in DOMAIN log : log[i].ev = "poll"}
Last == log[Len(log)]
Responded == response # NoResponse
ErrorResponse == Responded /\ raise_for_status(response.status_code)
----------------------------------------------------------------------------
(* C1 *)

\* C1: a task-triggering helper that got a non-error response returns the
\* 'id' of the response body if and only if the status is 202: with 202 it
\* never returns None, the id it returns is the body's 'id', and without a
\* poll it does return it; with any other non-error status it returns None
\* and the body was never read.
C1_IdIffAccepted ==
    (pc = "done" /\ op \in TaskHelpers /\ Responded /\ ~ErrorResponse) =>
        IF response.status_code = ACCEPTED
        THEN /\ returned # ReturnNone
             /\ returned.kind = "id" =>
                    /\ response.body.kind = "task"
                    /\ returned.id = response.body.id
             /\ (response.body.kind = "task" /\ PollStarts = {}) =>
                    returned = Return("id", response.body.id, <<>>)
        ELSE /\ returned = ReturnNone
             /\ JsonReads = {}

\* A helper returned the task id of a 202 response.
C1_Witness ==
    /\ pc = "done" /\ op \in TaskHelpers
    /\ response.status_code = ACCEPTED
    /\ returned = Return("id", response.body.id, <<>>)
    /\ synchronous = "False"

(* C2 *)

\* C2: a helper polls only after it received a 202 response and only when
\* synchronous is True; the poll is of the task the response named; while
\* the poll runs the helper has not returned; with synchronous True the
\* task id is returned only after the poll has completed, and otherwise it
\* is returned right after the body was read, without any poll.
C2_PollOrder ==
    op \in TaskHelpers =>
        /\ \A i \in PollEvents :
              /\ synchronous = "True"
              /\ response.status_code = ACCEPTED
              /\ log[i].n = response.body.id
              /\ \E j \in 1 .. (i - 1) :
                    log[j].ev = "response" /\ log[j].n = ACCEPTED
        /\ pc = "poll" => returned = NotReturned /\ PollStarts # {}
        /\ (pc = "done" /\ returned.kind = "id") =>
              IF synchronous = "True"
              THEN Last = Event("poll", "info", returned.id, <<>>)
              ELSE Last.ev = "json" /\ PollEvents = {}

\* A synchronous helper returned the task id after a poll of several rounds.
C2_Witness ==
    /\ pc = "done" /\ op \in TaskHelpers
    /\ synchronous = "True"
    /\ returned.kind = "id"
    /\ task.checks > 2

(* C3 *)

\* C3: a helper that wraps a single API action and gets a 4xx/5xx response
\* ends with HTTPError: it returns nothing, reads no body, starts no poll
\* and issues no further request (the log holds the request and the
\* response and nothing else).
C3_ErrorRaises ==
    (op \in ActionHelpers /\ ErrorResponse) =>
        /\ pc \in {"handle", "done"}
        /\ log = <<Event("request", RequestOf(op), None, <<>>),
                   Event("response", "", response.status_code, <<>>)>>
        /\ pc = "done" => returned = Raise("HTTPError")

\* A helper ended with HTTPError on a 500 response.
C3_Witness ==
    /\ pc = "done" /\ op \in ActionHelpers
    /\ response.status_code = 500
    /\ returned = Raise("HTTPError")
(* C4 *)

\* C4: every method surfaces a 4xx/5xx response as HTTPError before it
\* interprets the body: no body of an error response is ever read, and a
\* method that interprets bodies ends with HTTPError on an error response.
C4_ErrorBeforeBody ==
    /\ \A i \in JsonReads : ~(log[i].n >= 400 /\ log[i].n < 600)
    /\ (pc = "done" /\ ErrorResponse /\ op # "ActivationKey.read_raw") =>
            returned = Raise("HTTPError")

(* C5 *)

\* C5: a uniqueness search that got a non-error response with a 'results'
\* list raises APIResponseError when the list has zero or more than one
\* element, and returns the 'id' of the single result exactly when the list
\* has one element.
C5_UniqueResult ==
    (pc = "done" /\ op \in UniqueSearches /\ Responded /\ ~ErrorResponse) =>
        /\ response.body.kind = "list" =>
              IF Len(response.body.results) = 1
              THEN returned = Return("id", response.body.results[1], <<>>)
              ELSE returned = Raise("APIResponseError")
        /\ returned.kind = "id" =>
              /\ response.body.kind = "list"
              /\ Len(response.body.results) = 1

\* A search found more than one result and raised APIResponseError.
C5_Witness ==
    /\ pc = "done" /\ op \in UniqueSearches
    /\ response.status_code = 200
    /\ Len(response.body.results) > 1
    /\ returned = Raise("APIResponseError")

(* C6 *)

C7_TimeoutPropagates ==
    (/\ pc = "done" /\ op \in TaskHelpers /\ Len(log) > 0
     /\ Last.ev = "poll" /\ Last.what = "TaskTimeout") =>
        returned = Raise("TaskTimeout")

\* A helper whose poll timed out.
C7_Witness ==
    /\ pc = "done" /\ op \in TaskHelpers
    /\ response.status_code = ACCEPTED /\ synchronous = "True"
    /\ Last = Event("poll", "TaskTimeout", task_id, <<>>)
    /\ returned = Raise("TaskTimeout")
(* C8 *)

\* What holds of every poll while it runs and when it has ended: it checks
\* the task with its own id, one check per poll_rate seconds (5 when a
\* helper polls, with a timeout of 120), it never checks once the timeout
\* is exceeded, and it ends by returning the task's information, by
\* TaskTimeout exactly when the timeout is exceeded, or by HTTPError.
PollSafety ==
    /\ pc = "poll" =>
          /\ task.elapsed = task.checks * task.poll_rate
          /\ task.elapsed <= task.timeout + task.poll_rate
          /\ \A i \in PollEvents : log[i].n = task.id
          /\ op \in TaskHelpers =>
                /\ task.id = task_id
                /\ task.poll_rate = 5
                /\ task.timeout = 120
    /\ (pc = "done" /\ PollEvents # {}) =>
          /\ Last.ev = "poll"
          /\ Last.n = task.id
          /\ Last.what \in {"info", "TaskTimeout", "HTTPError"}
          /\ Last.what = "TaskTimeout" <=> task.elapsed > task.timeout
          /\ Last.what # "TaskTimeout" =>
                task.elapsed = (task.checks - 1) * task.poll_rate
          /\ op = "ForemanTask.poll" =>
                returned = IF Last.what = "info"
                           THEN Return("info", task.id, <<>>)
                           ELSE Raise(Last.what)

\* C8: ForemanTask.poll always terminates: every poll that runs ends, and
\* it runs and ends as PollSafety says.
C8_PollTerminates == []PollSafety /\ ((pc = "poll") ~> (pc = "done"))

\* A direct poll that checked the task more than once and then timed out.
C8_Witness ==
    /\ pc = "done" /\ op = "ForemanTask.poll"
    /\ task.checks > 1
    /\ returned = Raise("TaskTimeout")

(* C9 *)

Creates == {i \in DOMAIN log : log[i].ev = "create"}
Created == {i \in DOMAIN log : log[i].ev = "created"}
Failed == {i \in DOMAIN log : log[i].ev = "failed"}
\* The operatingsystem, architecture, ptable and medium the host was given.
FieldsAtCall == log[1].args
AllUnsetAtCall == \A k \in 1 .. 4 : FieldsAtCall[k] = None
FieldsNow == <<host.operatingsystem, host.architecture, host.ptable, host.medium>>

\* C9: Host._factory_data creates dependents only if all four fields were
\* unset; if one of them was set, nothing is created and the four fields
\* stay as they were; if all four were unset and no create failed, all four
\* are created and set.
C9_OnlyIfAllUnset ==
    op = "Host._factory_data" =>
        /\ Creates # {} => AllUnsetAtCall
        /\ ~AllUnsetAtCall => Creates = {} /\ FieldsNow = FieldsAtCall
        /\ (AllUnsetAtCall /\ Failed = {}
                /\ pc \in {"proxy", "wait", "handle", "done"}) =>
              /\ Cardinality(Created) = 4
              /\ \A k \in 1 .. 4 : FieldsNow[k] # None

\* A host given an architecture only: nothing was created.
C9_Witness ==
    /\ pc = "done" /\ op = "Host._factory_data"
    /\ FieldsAtCall[2] # None
    /\ FieldsAtCall[1] = None /\ FieldsAtCall[3] = None /\ FieldsAtCall[4] = None
    /\ returned.kind = "values"
    /\ Creates = {}

(* C10 *)

\* The documented order of the dependents.
HostOrder == <<"Architecture", "PartitionTable", "OperatingSystem", "Media">>
IsCreateEvent(e) == e.ev \in {"create", "created", "failed"}

\* C10: the dependents are created one after the other, each create
\* returning before the next starts, in the order architecture, partition
\* table, operating system, medium; the operating system is given exactly
\* the ids of the architecture and the partition table just created, the
\* medium exactly the id of that operating system, and a failed create is
\* the last one.
C10_CreateOrder ==
    op = "Host._factory_data" =>
        LET cs == SelectSeq(log, IsCreateEvent) IN
        /\ Len(cs) <= 8
        /\ \A i \in DOMAIN cs :
              IF i % 2 = 1
              THEN /\ cs[i].ev = "create"
                   /\ cs[i].what = HostOrder[(i + 1) \div 2]
              ELSE /\ cs[i].ev \in {"created", "failed"}
                   /\ cs[i].what = cs[i - 1].what
                   /\ cs[i].ev = "failed" => i = Len(cs)
        /\ Len(cs) >= 1 => cs[1].args = <<>>
        /\ Len(cs) >= 3 => cs[3].args = <<>>
        /\ Len(cs) >= 5 => cs[5].args = <<cs[2].n, cs[4].n>>
        /\ Len(cs) >= 7 => cs[7].args = <<cs[6].n>>
        /\ (Len(cs) = 8 /\ cs[8].ev = "created") =>
              FieldsNow = <<cs[6].n, cs[2].n, cs[4].n, cs[8].n>>

\* All four dependents were created, with different ids for the
\* architecture, the partition table and the operating system's medium.
C10_Witness ==
    /\ pc = "done" /\ op = "Host._factory_data"
    /\ Cardinality(Created) = 4
    /\ host.architecture # host.ptable
    /\ host.operatingsystem # host.architecture
    /\ returned.kind = "values"
(* C11 *)

\* The organization and the prior the lifecycle environment was given.
LceAtCall == [organization |-> log[1].args[1], prior |-> log[1].args[2]]

\* C11: LifecycleEnvironment.build first creates an organization if none
\* was given and stores its id, before any request; then, if no prior was
\* given, it searches the 'Library' environment of that organization and
\* stores the id of the one result in prior; an organization or a prior
\* that was given is never replaced and triggers no create and no request.
C11_BuildOrder ==
    op = "LifecycleEnvironment.build" =>
        /\ LceAtCall.organization # None =>
              /\ Creates = {}
              /\ lce.organization = LceAtCall.organization
        /\ LceAtCall.prior # None =>
              /\ Requests = {}
              /\ lce.prior = LceAtCall.prior
        /\ LceAtCall.organization = None =>
              /\ IF pc = "Organization"
                 THEN Len(log) = 1
                 ELSE Creates = {2} /\ log[2].what = "Organization"
              /\ Created = {} => lce.organization = None
              /\ Created # {} =>
                    Created = {3} /\ lce.organization = log[3].n
        /\ \A i \in Requests :
              /\ LceAtCall.prior = None
              /\ lce.organization # None
              /\ log[i] = Event("request", "GET Library", None,
                                <<lce.organization>>)
              /\ LceAtCall.organization = None => i > 3
        /\ (LceAtCall.prior = None /\ pc = "done") =>
              IF returned.kind = "values"
              THEN /\ response.body.kind = "list"
                   /\ Len(response.body.results) = 1
                   /\ lce.prior = response.body.results[1]
              ELSE lce.prior = None

\* build created the organization, searched its 'Library' and stored it.
C11_Witness ==
    /\ pc = "done" /\ op = "LifecycleEnvironment.build"
    /\ LceAtCall = NoLce
    /\ Cardinality(Created) = 1 /\ Cardinality(Requests) = 1
    /\ returned.kind = "values"
    /\ lce.prior # None /\ lce.organization # None
(* C12 *)

\* The argument of the call: the dict or option the method was given.
Given == log[1].args

\* C12: AuthSourceLDAP._factory_data returns normally; when the generated
\* values have onthefly_register True the returned values hold a generated
\* account_password, attr_firstname, attr_lastname, attr_login and
\* attr_mail, and otherwise the values are returned as they were produced.
C12_OntheflyFields ==
    (pc = "done" /\ op = "AuthSourceLDAP._factory_data") =>
        /\ returned = Return("values", None, <<>>)
        /\ IF HasKey(Given, "onthefly_register")
              /\ Given["onthefly_register"] = "True"
           THEN data = SetAll(Given, OntheflyFields, "generated")
           ELSE data = Given

(* C13 *)

\* The path a path method returned.
Path == returned.list[1]

\* C13: System.path returns '<base path>/<uuid>' if a UUID is
\* available and `which` is None or 'this', and otherwise the default path
\* for that `which`.
C13_UuidPathThis ==
    (pc = "done" /\ op = "System.path") =>
        Path = IF Given[1] # NoneArg
                  /\ (Given[2] = NoneArg \/ Given[2] = Some("this"))
               THEN Join(SuperPath(Some("base")), Given[1][1])
               ELSE SuperPath(Given[2])

(* C14 *)

\* C14: ForemanTask.path returns '<base path>/bulk_search' when `which` is
\* 'bulk_search' and the task's own ('self') path for every other `which`,
\* None and 'base' included; no `which` gives the path of all tasks.
C14_TaskPath ==
    (pc = "done" /\ op = "ForemanTask.path") =>
        /\ Given[1] = Some("bulk_search") =>
              Path = [super |-> Some("base"), tail |-> <<"bulk_search">>]
        /\ Given[1] # Some("bulk_search") =>
              Path = [super |-> Some("self"), tail |-> <<>>]
        /\ Path # [super |-> Some("base"), tail |-> <<>>]

\* A task asked for its 'base' path gave its own path.
C14_Witness ==
    /\ pc = "done" /\ op = "ForemanTask.path"
    /\ Given[1] = Some("base")
    /\ Path = SuperPath(Some("self"))

(* C15 *)

\* The sub-paths the docstring of each path method lists; for Product the
\* names that start with 'repository_sets'.
Documented ==
    [m \in PathMethods |->
        CASE m = "ActivationKey.path" -> {"releases", "subscriptions"}
          [] m = "ContentViewVersion.path" -> {"promote"}
          [] m = "ContentView.path" ->
                {"content_view_puppet_modules", "content_view_versions",
                 "publish", "available_puppet_module_names"}
          [] m = "Organization.path" ->
                {"subscriptions/upload", "subscriptions/delete_manifest",
                 "subscriptions/refresh_manifest", "sync_plans", "products",
                 "subscriptions"}
          [] m = "Product.path" ->
                {"repository_sets", "repository_sets/1/enable",
                 "repository_sets_x"}
          [] m = "Repository.path" -> {"sync", "upload_content"}]

\* C15: the path methods of ActivationKey, ContentView, ContentViewVersion,
\* Organization, Repository and Product return '<self path>/<which>' for
\* exactly the sub-paths the class documents, and for every other `which`,
\* None included, what the default implementation returns for it.
C15_SubPaths ==
    (pc = "done" /\ op \in PathMethods) =>
        IF Given[1] # NoneArg /\ Given[1][1] \in Documented[op]
        THEN Path = [super |-> Some("self"), tail |-> <<Given[1][1]>>]
        ELSE Path = [super |-> Given[1], tail |-> <<>>]

\* An organization gave the path of a manifest upload.
C15_Witness ==
    /\ pc = "done" /\ op = "Organization.path"
    /\ Given[1] = Some("subscriptions/upload")
    /\ Path = Join(SuperPath(Some("self")), "subscriptions/upload")

(* C16 *)

\* The calls of self.build and of super().create a create method made.
Builds == {i \in DOMAIN log : log[i].ev = "build"}
SuperCreates == {i \in DOMAIN log : log[i].ev = "super.create"}

\* C16: the create of Architecture, Media, OperatingSystem and User, given
\* no data, sends a dict with exactly one key ('architecture', 'medium',
\* 'operatingsystem', 'user') whose value is self.build(auth); data the
\* caller gives is passed on unchanged and unwrapped, and build is not
\* called.
C16_WrappedPayload ==
    (pc = "done" /\ op \in CreateMethods) =>
        /\ \A i \in SuperCreates : log[i].args[1] = Given[1]
        /\ IF Given[2] = NoneArg
           THEN /\ Builds = {2} /\ log[2].args = <<Given[1]>>
                /\ \A i \in SuperCreates :
                      /\ i = 3
                      /\ DOMAIN log[i].args[2] =
                            {CASE op = "Architecture.create" -> "architecture"
                               [] op = "Media.create" -> "medium"
                               [] op = "OperatingSystem.create" ->
                                     "operatingsystem"
                               [] op = "User.create" -> "user"}
                      /\ \A k \in DOMAIN log[i].args[2] :
                            log[i].args[2][k] =
                                [built_by |-> op, auth |-> Given[1]]
                /\ returned.kind = "super.create" => SuperCreates = {3}
           ELSE /\ Builds = {}
                /\ SuperCreates = {2}
                /\ log[2].args[2] = Given[2][1]

\* A medium was created from no data: the built values went out wrapped.
C16_Witness ==
    /\ pc = "done" /\ op = "Media.create"
    /\ Given[2] = NoneArg
    /\ SuperCreates = {3}
    /\ DOMAIN log[3].args[2] = {"medium"}

(* C17 *)

\* The fetches a read made, and the attributes it worked on: those given,
\* or those fetched.
Fetches == {i \in DOMAIN log : log[i].ev = "read_json"}
SuperReads == {i \in DOMAIN log : log[i].ev = "super.read"}
Worked == IF Given[2] # NoneArg THEN Given[2][1] ELSE log[2].args[2][1]

\* C17: Architecture.read and Media.read replace the list of hashes
\* 'operatingsystems' by 'operatingsystem_ids', the ids of the hashes in
\* the same order and number; Repository.read replaces the hash 'product'
\* by 'product_id'; the original key is gone, the other attributes are as
\* they were, and the server is asked (read_json) only when no attributes
\* were given.
C17_RenamedAttrs ==
    (pc = "done" /\ op \in ReadMethods) =>
        /\ Fetches = IF Given[2] = NoneArg THEN {2} ELSE {}
        /\ \A i \in SuperReads :
              LET old == IF op = "Repository.read" THEN "product"
                         ELSE "operatingsystems"
                  new == IF op = "Repository.read" THEN "product_id"
                         ELSE "operatingsystem_ids"
                  sent == log[i].args[2]
              IN  /\ i = Len(log)
                  /\ sent = data
                  /\ DOMAIN sent = (DOMAIN Worked \ {old}) \cup {new}
                  /\ \A k \in DOMAIN sent \ {new} : sent[k] = Worked[k]
                  /\ IF op = "Repository.read"
                     THEN sent[new] = Worked[old].id
                     ELSE /\ Len(sent[new]) = Len(Worked[old])
                          /\ \A j \in 1 .. Len(Worked[old]) :
                                sent[new][j] = Worked[old][j].id
        /\ returned.kind = "super.read" <=> SuperReads # {}

\* An architecture with two operating systems was read from the server.
C17_Witness ==
    /\ pc = "done" /\ op = "Architecture.read"
    /\ Given[2] = NoneArg
    /\ SuperReads = {3}
    /\ Worked["operatingsystems"] = <<[id |-> 2, name |-> "rhel"],
                                      [id |-> 1, name |-> "rhel"]>>
    /\ data["operatingsystem_ids"] = <<2, 1>>

(* C18 *)

\* C18: ConfigTemplate._factory_data populates the template kind if and
\* only if snippet is False and no template kind was given: then
\* 'template_kind_id' is one of 1..8; a template kind that was given is
\* never overwritten, and for a snippet none is added.
C18_TemplateKind ==
    (pc = "done" /\ op = "ConfigTemplate._factory_data") =>
        /\ returned = Return("values", None, <<>>)
        /\ IF /\ "snippet" \in DOMAIN Given
              /\ Given["snippet"] = "False"
              /\ "template_kind_id" \notin DOMAIN Given
           THEN /\ DOMAIN data = DOMAIN Given \cup {"template_kind_id"}
                /\ data["template_kind_id"] \in 1 .. 8
                /\ \A k \in DOMAIN Given : data[k] = Given[k]
           ELSE data = Given

\* A template that is no snippet and had no kind got the last of the kinds.
C18_Witness ==
    /\ pc = "done" /\ op = "ConfigTemplate._factory_data"
    /\ "snippet" \in DOMAIN Given /\ Given["snippet"] = "False"
    /\ "template_kind_id" \notin DOMAIN Given
    /\ data["template_kind_id"] = 8

(* C19 *)

\* C19: every entity class declares, in a Meta of its own, one api_path
\* string and server_modes as a collection of mode names out of 'sat' and
\* 'sam'; OverrideValue, OperatingSystemParameter and the classes that
\* write `server_modes = ('sat')` included.
C19_MetaDeclared ==
    (pc = "done" /\ op = "Meta") =>
        LET meta == returned.list[1]
        IN  /\ meta.own
            /\ meta.api_path.type = "str"
            /\ meta.server_modes.type = "tuple"
            /\ \A i \in DOMAIN meta.server_modes.items :
                    meta.server_modes.items[i] \in {"sat", "sam"}

====
